---- MODULE Spec2Model ----
(***************************************************************************)
(* WorldServerThread (src/source/core/StarText.cpp, lines 90-359): the     *)
(* per-world host thread.  One run-loop thread executes run()/update();    *)
(* external threads call the public operations.  m_mutex guards the engine *)
(* (m_worldServer) and the registry (m_clients); m_queueMutex guards the   *)
(* two packet queue maps.  A public operation that holds m_mutex for its   *)
(* whole body is one action; the tick is split at the points where it      *)
(* releases m_queueMutex, because pushIncomingPackets / pullOutgoingPackets*)
(* interleave with it there.                                               *)
(*                                                                         *)
(* Packets are numbered per client in the order they are created           *)
(* (incoming: by pushIncomingPackets, outgoing: by the engine), which lets *)
(* order, loss and duplication be read off the queues.                     *)
(***************************************************************************)
EXTENDS Integers, Sequences, FiniteSets, TLC

\* ------------------------------------------------------------------ bounds
ClientIds == {1, 2, 3}   \* connection ids used by the dispatcher
Callers == {"t1", "t2"}  \* threads of the owning process calling the host
Threads == {"loop"} \cup Callers
MaxPackets == 2          \* packets created in total (pushed in, or emitted by the engine)
MaxSpare == 2            \* largest spare time of a tick, as a surplus or a deficit
MaxThreshold == 2        \* largest configured fidelity threshold, either way
MaxLoop == 1             \* most ids clientIds() returns to a loop of the lock protocol

VARIABLES
  engineClients,          \* m_worldServer: the ids the engine recognises
  m_clients,              \* registry
  m_incomingPacketQueue,  \* map id -> list of packets
  m_outgoingPacketQueue,  \* map id -> list of packets
  m_stop,
  m_errorOccurred,
  m_pause,                \* "null" (no pause signal set), "true", "false"
  m_updateAction,         \* TRUE when an update hook is registered
  m_mutex,                \* "free" or "loop" (held by the run-loop thread)
  pc,                     \* position of the run-loop thread
  unerroredClientIds,     \* update(): the list's storage (all slots of the buffer)
  size,                   \* update(): the list's logical size
  it,                     \* update(): first loop's iterator (slot index)
  incomingPackets,        \* update(): packets taken for the client at `it`
  joining,                \* a caller of stop() is blocked in Thread::join
  stopped,                \* stop() has returned and start() was not called since
  inSeq, inDone,          \* per id: packets pushed / packets that left the incoming queue
  outSeq, outDone,        \* per id: packets produced / packets that left the outgoing queue
  tick,                   \* what the current (or last) tick did
  escaped,                \* the last public call ended by a fault reaching its caller
  fidelityDecrementScore, \* configuration: /universe_server.config:fidelityDecrementScore
  fidelityIncrementScore, \* configuration: /universe_server.config:fidelityIncrementScore
  fidelityScore,          \* run(): accumulated spare time
  automaticFidelity,      \* run(): the level, as its position in Fidelities
  dtor,                   \* the destructor: "none", "joining", "removing", "destroyed"
  dtorIds,                \* the destructor: the ids its loop has still to visit
  m_mutexDepth,           \* recursive simulation mutex: times its owner has locked it
  m_queueMutex,           \* recursive queue mutex: "free" or the owning thread
  m_queueMutexDepth,      \* times its owner has locked it
  stack                   \* per thread: the calls in progress, innermost last

vars == <<engineClients, m_clients, m_incomingPacketQueue, m_outgoingPacketQueue,
          m_stop, m_errorOccurred, m_pause, m_updateAction, m_mutex, pc,
          unerroredClientIds, size, it, incomingPackets, joining, stopped,
          inSeq, inDone, outSeq, outDone, tick, escaped,
          fidelityDecrementScore, fidelityIncrementScore, fidelityScore,
          automaticFidelity, dtor, dtorIds, m_mutexDepth, m_queueMutex,
          m_queueMutexDepth, stack>>

loopLocals == <<unerroredClientIds, size, it, incomingPackets>>
history == <<inSeq, inDone, outSeq, outDone>>
flags == <<m_stop, m_errorOccurred, m_pause, m_updateAction>>
queues == <<m_incomingPacketQueue, m_outgoingPacketQueue>>
stopper == <<joining, stopped>>
config == <<fidelityDecrementScore, fidelityIncrementScore>>
controller == <<fidelityScore, automaticFidelity>>
\* what only the operations concerned touch
teardown == <<dtor, dtorIds>>
locking == <<m_mutexDepth, m_queueMutex, m_queueMutexDepth, stack>>
outside == <<config, teardown, locking>>

\* ------------------------------------------------------- sequences and maps
Range(s) == {s[k] : k \in DOMAIN s}

\* <<a+1, ..., b>>
Run(a, b) == [k \in 1..(b - a) |-> a + k]

RECURSIVE SetSum(_, _)
SetSum(f, S) == IF S = {} THEN 0
                ELSE LET x == CHOOSE y \in S : TRUE IN f[x] + SetSum(f, S \ {x})

\* every ordering of a finite set
Orderings(S) == {s \in [1..Cardinality(S) -> S] : Range(s) = S}

\* m[id] read through operator[]: a missing entry reads as the empty list
QGet(m, id) == IF id \in DOMAIN m THEN m[id] ELSE <<>>

\* m[id] = v, creating the entry when it is missing (operator[] inserts)
QPut(m, id, v) == [k \in DOMAIN m \cup {id} |-> IF k = id THEN v ELSE m[k]]

\* take(m[id]): the entry is left (or created) empty
QTaken(m, id) == QPut(m, id, <<>>)

\* m[id].appendAll(pkts)
\* variant: the packets are put in front of the queue
QAppendAllFront(m, id, pkts) == QPut(m, id, pkts \o QGet(m, id))
QAppendAll(m, id, pkts) == QPut(m, id, QGet(m, id) \o pkts)

\* m.remove(id)
QRemove(m, id) == [k \in DOMAIN m \ {id} |-> m[k]]

\* ------------------------------------------------------------------ engine
\* The engine (WorldServer) is an external collaborator: what it decides and
\* what it emits is an input.  A call either completes or raises a fault; a
\* call that raises leaves the engine's client set as it was.

\* addClient: the accept / reject decision, or a fault
EngineAddOutcomes(id) ==
  {"reject", "fault"} \cup (IF id \in engineClients THEN {} ELSE {"accept"})

\* handleIncomingPackets, update, sync, getOutgoingPackets, removeClient, queries
EngineOutcomes == {"ok", "fault"}

PacketsCreated == SetSum(inSeq, ClientIds) + SetSum(outSeq, ClientIds)

\* the batches the engine may emit for id now (getOutgoingPackets, removeClient)
EngineEmits(id) ==
  {<<>>} \cup (IF PacketsCreated < MaxPackets THEN {<<outSeq[id] + 1>>} ELSE {})

\* clientIds(): the recognised ids, in the order of the engine's hash map
EngineClientIds == Orderings(engineClients)

\* WorldServerFidelity: the levels in their order; a level is held as its
\* position in this list, as the code holds it as the enumerator's integer
Fidelities == <<"Minimum", "Low", "Medium", "High">>

Fidelity(name) == CHOOSE k \in DOMAIN Fidelities : Fidelities[k] = name

\* ------------------------------------------------------------ state at rest
NoTick == [snapshot |-> {}, handled |-> [c \in ClientIds |-> 0], faulted |-> {},
           collected |-> [c \in ClientIds |-> 0], updates |-> 0, paused |-> "unread",
           spareTime |-> 0, scoreBefore |-> 0, levelBefore |-> 0]

\* the host can be called: the process runs and the object is not being destroyed
Alive == pc # "aborted" /\ dtor = "none"
MutexFree == Alive /\ m_mutex = "free"

\* the host as constructed (lines 100-105), no thread started
Constructed ==
  /\ engineClients = {}
  /\ m_clients = {}
  /\ m_incomingPacketQueue = <<>>
  /\ m_outgoingPacketQueue = <<>>
  /\ m_stop = FALSE
  /\ m_errorOccurred = FALSE
  /\ m_pause = "null"
  /\ m_updateAction = FALSE
  /\ m_mutex = "free"
  /\ pc = "idle"
  /\ unerroredClientIds = <<>>
  /\ size = 0
  /\ it = 1
  /\ incomingPackets = <<>>
  /\ joining = FALSE
  /\ stopped = FALSE
  /\ inSeq = [c \in ClientIds |-> 0]
  /\ inDone = [c \in ClientIds |-> 0]
  /\ outSeq = [c \in ClientIds |-> 0]
  /\ outDone = [c \in ClientIds |-> 0]
  /\ tick = NoTick
  /\ escaped = FALSE
  /\ fidelityScore = 0
  /\ automaticFidelity = Fidelity("Medium")
  /\ dtor = "none"
  /\ dtorIds = <<>>
  /\ m_mutexDepth = 0
  /\ m_queueMutex = "free"
  /\ m_queueMutexDepth = 0
  /\ stack = [t \in Threads |-> <<>>]

Init ==
  /\ Constructed
  /\ fidelityDecrementScore = 0 - MaxThreshold
  /\ fidelityIncrementScore = MaxThreshold

\* ------------------------------------------------------- lifecycle controls
\* Thread::start: a thread is created unless one is still running or unjoined
ThreadStart == IF pc = "idle" THEN "check" ELSE pc

\* start(), lines 120-124
Start ==
  /\ UNCHANGED outside
  /\ Alive
  /\ fidelityScore' = IF ThreadStart # pc THEN 0 ELSE fidelityScore
  /\ automaticFidelity' = IF ThreadStart # pc THEN Fidelity("Medium")
                          ELSE automaticFidelity
  /\ m_stop' = FALSE
  /\ m_errorOccurred' = FALSE
  /\ pc' = ThreadStart
  /\ stopped' = FALSE
  /\ escaped' = FALSE
  /\ UNCHANGED <<engineClients, m_clients, queues, m_pause, m_updateAction, m_mutex,
                 loopLocals, joining, history, tick>>

\* stop(), line 127: the stop request
StopRequest ==
  /\ UNCHANGED <<controller, outside>>
  /\ Alive
  /\ ~joining
  /\ m_stop' = TRUE
  /\ joining' = TRUE
  /\ UNCHANGED <<engineClients, m_clients, queues, m_errorOccurred, m_pause,
                 m_updateAction, m_mutex, pc, loopLocals, stopped, history, tick,
                 escaped>>

\* Thread::join returns once run() has returned (at once when no thread runs)
Joinable == pc \in {"idle", "done"}

\* the loop thread once joined
Joined == IF pc = "done" THEN "idle" ELSE pc

\* stop(), line 128: join returns, stop() returns
\* variant: stop() returns without waiting for the loop thread
StopReturnNoJoin ==
  /\ UNCHANGED <<controller, outside>>
  /\ Alive
  /\ joining
  /\ joining' = FALSE
  /\ stopped' = TRUE
  /\ escaped' = FALSE
  /\ UNCHANGED <<engineClients, m_clients, queues, flags, m_mutex, pc, loopLocals,
                 history, tick>>

StopReturn ==
  /\ UNCHANGED <<controller, outside>>
  /\ Alive
  /\ joining
  /\ Joinable
  /\ pc' = Joined
  /\ joining' = FALSE
  /\ stopped' = TRUE
  /\ escaped' = FALSE
  /\ UNCHANGED <<engineClients, m_clients, queues, flags, m_mutex, loopLocals,
                 history, tick>>

\* setPause(), lines 131-133, and the owner of the flag changing its value
SetPause(v) ==
  /\ UNCHANGED <<controller, outside>>
  /\ Alive
  /\ m_pause' = v
  /\ m_pause' # m_pause
  /\ UNCHANGED <<engineClients, m_clients, queues, m_stop, m_errorOccurred,
                 m_updateAction, m_mutex, pc, loopLocals, stopper, history, tick,
                 escaped>>

\* setUpdateAction(), lines 249-252
SetUpdateAction(a) ==
  /\ UNCHANGED <<controller, outside>>
  /\ MutexFree
  /\ m_updateAction' = a
  /\ m_updateAction' # m_updateAction
  /\ escaped' = FALSE
  /\ UNCHANGED <<engineClients, m_clients, queues, m_stop, m_errorOccurred, m_pause,
                 m_mutex, pc, loopLocals, stopper, history, tick>>

\* ---------------------------------------------------------- client registry
\* addClient(), lines 153-158: the registry after the engine's decision
\* variants: the id is registered whatever the engine decided / never
AddClientRegistryAlways(id, outcome) == m_clients \cup {id}
AddClientRegistryNever(id, outcome) == m_clients
AddClientRegistry(id, outcome) ==
  IF outcome = "accept" THEN m_clients \cup {id} ELSE m_clients

\* addClient(), lines 159-163: the catch block
AddClientError(outcome) == IF outcome = "fault" THEN TRUE ELSE m_errorOccurred

\* addClient(), lines 155, 158, 162: the value returned
AddClientReturns(outcome) == outcome = "accept"

\* addClient(), lines 150-164, with the engine's addClient ending in `outcome`
AddClientDoes(id, outcome) ==
  /\ UNCHANGED <<controller, outside>>
  /\ MutexFree
  /\ outcome \in EngineAddOutcomes(id)
  /\ engineClients' = IF outcome = "accept" THEN engineClients \cup {id}
                      ELSE engineClients
  /\ m_clients' = AddClientRegistry(id, outcome)
  /\ m_errorOccurred' = AddClientError(outcome)
  /\ escaped' = FALSE
  /\ UNCHANGED <<queues, m_stop, m_pause, m_updateAction, m_mutex, pc, loopLocals,
                 stopper, history, tick>>

AddClient(id) == \E outcome \in {"accept", "reject", "fault"} : AddClientDoes(id, outcome)

\* removeClient(), lines 175-186: the engine calls inside the try block.
\* h is the outcome of handleIncomingPackets, r of the engine's removeClient
\* and e the packets it emits; a call that is not made has outcome "none".
RemovalCases(id) ==
  IF id \notin engineClients
    THEN {[h |-> "none", r |-> "none", e |-> <<>>]}
    ELSE {[h |-> "fault", r |-> "none", e |-> <<>>],
          [h |-> "ok", r |-> "fault", e |-> <<>>]}
         \cup {[h |-> "ok", r |-> "ok", e |-> e] : e \in EngineEmits(id)}

RemovalFaulted(c) == c.h = "fault" \/ c.r = "fault"

\* removeClient(), lines 173-182 and 191: the packets returned
RemoveClientPackets(id, c) ==
  IF c.h = "fault" THEN <<>> ELSE QGet(m_outgoingPacketQueue, id) \o c.e

\* removeClient(), lines 188-190: the registry and the queue maps on return
\* variant: a removal whose engine call raised keeps the entries
RemoveClientKeepsOnFault(id, c) ==
  IF RemovalFaulted(c)
    THEN <<m_clients, QTaken(m_incomingPacketQueue, id), m_outgoingPacketQueue>>
    ELSE <<m_clients \ {id}, QRemove(m_incomingPacketQueue, id),
           QRemove(m_outgoingPacketQueue, id)>>
RemoveClientErase(id, c) ==
  <<m_clients \ {id}, QRemove(m_incomingPacketQueue, id),
    QRemove(m_outgoingPacketQueue, id)>>

\* removeClient(), lines 168-169: an id the registry does not list
RemoveClientUnknown(id) ==
  /\ UNCHANGED <<controller, outside>>
  /\ MutexFree
  /\ id \notin m_clients
  /\ escaped' = FALSE
  /\ UNCHANGED <<engineClients, m_clients, queues, flags, m_mutex, pc, loopLocals,
                 stopper, history, tick>>

\* removeClient(), lines 166-192, for a registered id, the engine doing c
RemoveClientBody(id, c) ==
  /\ id \in m_clients
  /\ c \in RemovalCases(id)
  /\ engineClients' = IF c.r = "ok" THEN engineClients \ {id} ELSE engineClients
  /\ inDone' = [inDone EXCEPT ![id] = inSeq[id]]
  /\ outSeq' = [outSeq EXCEPT ![id] = @ + Len(c.e)]
  /\ outDone' = [outDone EXCEPT ![id] = outSeq'[id]]
  /\ m_errorOccurred' = (m_errorOccurred \/ RemovalFaulted(c))
  /\ m_clients' = RemoveClientErase(id, c)[1]
  /\ m_incomingPacketQueue' = RemoveClientErase(id, c)[2]
  /\ m_outgoingPacketQueue' = RemoveClientErase(id, c)[3]
  /\ escaped' = FALSE
  /\ UNCHANGED <<m_stop, m_pause, m_updateAction, m_mutex, pc, loopLocals, stopper,
                 inSeq, tick>>

RemoveClientDoes(id, c) ==
  /\ UNCHANGED <<controller, outside>>
  /\ MutexFree
  /\ RemoveClientBody(id, c)

RemoveClient(id) ==
  \/ RemoveClientUnknown(id)
  \/ \E h \in {"none", "ok", "fault"}, r \in {"none", "ok", "fault"},
        e \in {<<>>, <<outSeq[id] + 1>>} :
       RemoveClientDoes(id, [h |-> h, r |-> r, e |-> e])

\* erroredClients(), lines 204-208: the value returned
\* variant: the whole registry is returned
ErroredClientsValueAll == m_clients
ErroredClientsValue == m_clients \ engineClients

ErroredClients ==
  /\ UNCHANGED <<controller, outside>>
  /\ MutexFree
  /\ escaped' = FALSE
  /\ UNCHANGED <<engineClients, m_clients, queues, flags, m_mutex, pc, loopLocals,
                 stopper, history, tick>>

\* spawnTargetValid, playerRevivePosition, pullNewPlanetType, readChunks
\* (lines 139-148, 220-242, 254-263): one engine query inside try / catch
AuxQuery ==
  /\ UNCHANGED <<controller, outside>>
  /\ MutexFree
  /\ \E outcome \in EngineOutcomes :
       m_errorOccurred' = (m_errorOccurred \/ outcome = "fault")
  /\ escaped' = FALSE
  /\ UNCHANGED <<engineClients, m_clients, queues, m_stop, m_pause, m_updateAction,
                 m_mutex, pc, loopLocals, stopper, history, tick>>

\* executeAction(), lines 244-247: the injected action runs under m_mutex,
\* with no try block around it, so a fault it raises reaches the caller
ExecuteActionEscapes(outcome) == outcome = "fault"

ExecuteAction ==
  /\ UNCHANGED <<controller, outside>>
  /\ MutexFree
  /\ \E outcome \in EngineOutcomes : escaped' = ExecuteActionEscapes(outcome)
  /\ UNCHANGED <<engineClients, m_clients, queues, flags, m_mutex, pc, loopLocals,
                 stopper, history, tick>>

\* ------------------------------------------------------------- destruction
\* ~WorldServerThread(), line 108: the destructor forces the stop request
DestroyBegin ==
  /\ Alive
  /\ ~joining
  /\ m_stop' = TRUE
  /\ dtor' = "joining"
  /\ UNCHANGED <<engineClients, m_clients, queues, m_errorOccurred, m_pause,
                 m_updateAction, m_mutex, pc, loopLocals, stopper, history, tick,
                 escaped, config, controller, dtorIds, locking>>

\* ~WorldServerThread(), lines 109-112: join returns, the simulation mutex is
\* taken, the loop's range is the engine's clientIds()
DestroyJoined ==
  /\ dtor = "joining"
  /\ Joinable
  /\ pc' = Joined
  /\ dtor' = "removing"
  /\ dtorIds' \in EngineClientIds
  /\ UNCHANGED <<engineClients, m_clients, queues, flags, m_mutex, loopLocals,
                 stopper, history, tick, escaped, config, controller, locking>>

\* ~WorldServerThread(), line 113: removeClient for the next id of the range
DestroyRemove ==
  /\ dtor = "removing"
  /\ dtorIds # <<>>
  /\ dtorIds' = Tail(dtorIds)
  /\ LET clientId == Head(dtorIds) IN
       \/ \E c \in RemovalCases(clientId) : RemoveClientBody(clientId, c)
       \/ /\ clientId \notin m_clients
          /\ escaped' = FALSE
          /\ UNCHANGED <<engineClients, m_clients, queues, flags, m_mutex, pc,
                         loopLocals, stopper, history, tick>>
  /\ UNCHANGED <<dtor, config, controller, locking>>

\* ~WorldServerThread(), line 114: the loop is over, the host is gone
DestroyEnd ==
  /\ dtor = "removing"
  /\ dtorIds = <<>>
  /\ dtor' = "destroyed"
  /\ UNCHANGED <<engineClients, m_clients, queues, flags, m_mutex, pc, loopLocals,
                 stopper, history, tick, escaped, config, controller, dtorIds,
                 locking>>

Destroy ==
  \/ DestroyBegin
  \/ DestroyJoined
  \/ DestroyRemove
  \/ DestroyEnd

\* ------------------------------------------------------------ packet queues
\* pushIncomingPackets(), lines 210-213 (one packet per call)
\* variant: pushed packets overtake the queued ones
PushedQueueFront(id, pkts) == QAppendAllFront(m_incomingPacketQueue, id, pkts)
PushedQueue(id, pkts) == QAppendAll(m_incomingPacketQueue, id, pkts)

PushIncomingPackets(id) ==
  /\ UNCHANGED <<controller, outside>>
  /\ Alive
  /\ PacketsCreated < MaxPackets
  /\ inSeq' = [inSeq EXCEPT ![id] = @ + 1]
  /\ m_incomingPacketQueue' = PushedQueue(id, <<inSeq'[id]>>)
  /\ escaped' = FALSE
  /\ UNCHANGED <<engineClients, m_clients, m_outgoingPacketQueue, flags, m_mutex, pc,
                 loopLocals, stopper, inDone, outSeq, outDone, tick>>

\* pullOutgoingPackets(), lines 215-218: the packets returned, the queue left
PulledPackets(id) == QGet(m_outgoingPacketQueue, id)
\* variant: the pull leaves the returned packets queued
PulledQueueKeeps(id) == QPut(m_outgoingPacketQueue, id, QGet(m_outgoingPacketQueue, id))
PulledQueue(id) == QTaken(m_outgoingPacketQueue, id)

PullOutgoingPackets(id) ==
  /\ UNCHANGED <<controller, outside>>
  /\ Alive
  /\ m_outgoingPacketQueue' = PulledQueue(id)
  /\ outDone' = [outDone EXCEPT ![id] = @ + Len(PulledPackets(id))]
  /\ escaped' = FALSE
  /\ UNCHANGED <<engineClients, m_clients, m_incomingPacketQueue, flags, m_mutex, pc,
                 loopLocals, stopper, inSeq, inDone, outSeq, tick>>

\* ----------------------------------------------------------------- run loop
\* run(), line 284: the loop condition
\* variant: the loop ignores the error flag
LoopCondStopOnly == ~m_stop
LoopCond == ~m_stop /\ ~m_errorOccurred

\* update()'s locals are gone once it returns
NoLocals ==
  /\ unerroredClientIds' = <<>>
  /\ size' = 0
  /\ it' = 1
  /\ incomingPackets' = <<>>

\* run(), line 284: the iteration boundary
LoopCheck ==
  /\ UNCHANGED <<controller, outside>>
  /\ pc = "check"
  /\ pc' = IF LoopCond THEN "update" ELSE "done"
  /\ tick' = NoTick
  /\ UNCHANGED <<engineClients, m_clients, queues, flags, m_mutex, loopLocals,
                 stopper, history, escaped>>

\* run(), lines 316-319: a fault leaves update() or sync(), whose lockers
\* release their mutexes, and ends run() in its catch block
FaultEndsRun ==
  /\ m_mutex' = "free"
  /\ m_errorOccurred' = TRUE
  /\ pc' = "done"
  /\ tick' = NoTick
  /\ NoLocals

\* update(), lines 323-324: lock the simulation mutex, snapshot the ids
UpdateBegin ==
  /\ UNCHANGED <<controller, outside>>
  /\ pc = "update"
  /\ m_mutex = "free"
  /\ m_mutex' = "loop"
  /\ \E snapshot \in EngineClientIds :
       /\ unerroredClientIds' = snapshot
       /\ size' = Len(snapshot)
       /\ pc' = IF Len(snapshot) > 0 THEN "drain" ELSE "step"
  /\ it' = 1
  /\ incomingPackets' = <<>>
  /\ tick' = [NoTick EXCEPT !.snapshot = engineClients]
  /\ UNCHANGED <<engineClients, m_clients, queues, flags, stopper, history, escaped>>

\* update(), lines 326-328: take the client's incoming queue under m_queueMutex
\* variant: the drain leaves the taken packets queued
DrainedQueueKeeps(clientId) ==
  QPut(m_incomingPacketQueue, clientId, QGet(m_incomingPacketQueue, clientId))
DrainedQueue(clientId) == QTaken(m_incomingPacketQueue, clientId)

UpdateDrain ==
  /\ UNCHANGED <<controller, outside>>
  /\ pc = "drain"
  /\ LET clientId == unerroredClientIds[it] IN
       /\ incomingPackets' = QGet(m_incomingPacketQueue, clientId)
       /\ m_incomingPacketQueue' = DrainedQueue(clientId)
  /\ pc' = "deliver"
  /\ UNCHANGED <<engineClients, m_clients, m_outgoingPacketQueue, flags, m_mutex,
                 unerroredClientIds, size, it, stopper, history, tick, escaped>>

\* List::remove on the vector's storage: the elements after a removed one move
\* down, the slots past the new logical end keep what they held
ListRemove(buf, n, e) ==
  LET kept == SelectSeq(SubSeq(buf, 1, n), LAMBDA x : x # e)
  IN kept \o SubSeq(buf, Len(kept) + 1, Len(buf))

ListRemoveSize(buf, n, e) == Len(SelectSeq(SubSeq(buf, 1, n), LAMBDA x : x # e))

\* The range-for of line 325 holds begin and end iterators taken before the
\* loop.  remove() at line 336 invalidates them: advancing and comparing them
\* afterwards is undefined.  A build either keeps walking the old storage up
\* to the old end ("walk") or traps on the invalidated iterator ("trap").
InvalidatedIterator == {"walk", "trap"}

\* the first loop's position once the iterator has moved to slot `next`
NextDrainPc(next) == IF next <= Len(unerroredClientIds) THEN "drain" ELSE "step"

\* update(), lines 329-337: deliver, and on a fault remove the client
UpdateDeliver ==
  /\ UNCHANGED <<controller, outside>>
  /\ pc = "deliver"
  /\ LET clientId == unerroredClientIds[it] IN
     /\ inDone' = [inDone EXCEPT ![clientId] = @ + Len(incomingPackets)]
     /\ \/ \* handleIncomingPackets returns
           /\ tick' = [tick EXCEPT !.handled[clientId] = @ + 1]
           /\ it' = it + 1
           /\ incomingPackets' = <<>>
           /\ pc' = NextDrainPc(it + 1)
           /\ UNCHANGED <<engineClients, m_outgoingPacketQueue, m_errorOccurred,
                          m_mutex, unerroredClientIds, size, outSeq>>
        \/ \* it raises, and the engine's removeClient in the catch block returns
           /\ \E e \in EngineEmits(clientId) :
                /\ m_outgoingPacketQueue' = QAppendAll(m_outgoingPacketQueue, clientId, e)
                /\ outSeq' = [outSeq EXCEPT ![clientId] = @ + Len(e)]
           /\ engineClients' = engineClients \ {clientId}
           /\ unerroredClientIds' = ListRemove(unerroredClientIds, size, clientId)
           /\ size' = ListRemoveSize(unerroredClientIds, size, clientId)
           /\ tick' = [tick EXCEPT !.handled[clientId] = @ + 1,
                                   !.faulted = @ \cup {clientId}]
           /\ it' = it + 1
           /\ incomingPackets' = <<>>
           /\ \E outcome \in InvalidatedIterator :
                pc' = IF size' = size THEN NextDrainPc(it + 1)
                      ELSE IF outcome = "trap" THEN "aborted"
                      ELSE NextDrainPc(it + 1)
           /\ UNCHANGED <<m_errorOccurred, m_mutex>>
        \/ \* it raises, and the engine's removeClient raises too
           /\ FaultEndsRun
           /\ UNCHANGED <<engineClients, m_outgoingPacketQueue, outSeq>>
  /\ UNCHANGED <<m_clients, m_incomingPacketQueue, m_stop, m_pause, m_updateAction,
                 stopper, inSeq, outDone, escaped>>

\* update(), line 341: the pause signal, read once per tick
\* variant: the pause signal is ignored
ShouldUpdateAlways == TRUE
ShouldUpdate == m_pause # "true"

\* the second loop's first position
CollectPc == IF size > 0 THEN "collect" ELSE "hook"

\* update(), lines 340-342: set the fidelity, run the engine's update step
UpdateStep ==
  /\ UNCHANGED <<controller, outside>>
  /\ pc = "step"
  /\ \/ \* setFidelity returns; update is skipped, or runs and returns
        /\ tick' = [tick EXCEPT !.paused = m_pause,
                                !.updates = IF ShouldUpdate THEN @ + 1 ELSE @]
        /\ it' = 1
        /\ pc' = CollectPc
        /\ UNCHANGED <<m_errorOccurred, m_mutex, unerroredClientIds, size,
                       incomingPackets>>
     \/ \* setFidelity raises
        /\ FaultEndsRun
     \/ \* update runs and raises
        /\ ShouldUpdate
        /\ FaultEndsRun
  /\ UNCHANGED <<engineClients, m_clients, queues, m_stop, m_pause, m_updateAction,
                 stopper, history, escaped>>

\* update(), lines 344-348: collect the engine's packets of one client
UpdateCollect ==
  /\ UNCHANGED <<controller, outside>>
  /\ pc = "collect"
  /\ LET clientId == unerroredClientIds[it] IN
     \/ /\ \E e \in EngineEmits(clientId) :
             /\ m_outgoingPacketQueue' = QAppendAll(m_outgoingPacketQueue, clientId, e)
             /\ outSeq' = [outSeq EXCEPT ![clientId] = @ + Len(e)]
        /\ tick' = [tick EXCEPT !.collected[clientId] = @ + 1]
        /\ it' = it + 1
        /\ pc' = IF it + 1 <= size THEN "collect" ELSE "hook"
        /\ UNCHANGED <<m_errorOccurred, m_mutex, unerroredClientIds, size,
                       incomingPackets>>
     \/ \* getOutgoingPackets raises
        /\ FaultEndsRun
        /\ UNCHANGED <<m_outgoingPacketQueue, outSeq>>
  /\ UNCHANGED <<engineClients, m_clients, m_incomingPacketQueue, m_stop, m_pause,
                 m_updateAction, stopper, inSeq, inDone, outDone, escaped>>

\* update(), lines 350-352: the update hook, then the locker releases m_mutex
UpdateHook ==
  /\ UNCHANGED <<controller, outside>>
  /\ pc = "hook"
  /\ \/ /\ m_mutex' = "free"
        /\ pc' = "post"
        /\ tick' = [NoTick EXCEPT !.paused = tick.paused, !.updates = tick.updates]
        /\ NoLocals
        /\ UNCHANGED m_errorOccurred
     \/ \* the hook raises
        /\ m_updateAction
        /\ FaultEndsRun
  /\ UNCHANGED <<engineClients, m_clients, queues, m_stop, m_pause, m_updateAction,
                 stopper, history, escaped>>

\* run(), lines 290-292: the storage timer is polled; the interval has
\* elapsed (timeUp) or has not
AfterTimer(timeUp) == IF timeUp THEN "sync" ELSE "fidelity"

LoopTimerDoes(timeUp) ==
  /\ UNCHANGED <<controller, outside>>
  /\ pc = "post"
  /\ pc' = AfterTimer(timeUp)
  /\ UNCHANGED <<engineClients, m_clients, queues, flags, m_mutex, loopLocals,
                 stopper, history, tick, escaped>>

LoopTimer == \E timeUp \in BOOLEAN : LoopTimerDoes(timeUp)

\* run(), lines 293-294, and sync(), lines 354-358: the engine's sync under
\* the simulation mutex
LoopSync ==
  /\ UNCHANGED <<controller, outside>>
  /\ pc = "sync"
  /\ m_mutex = "free"
  /\ \/ /\ pc' = "fidelity"
        /\ UNCHANGED <<m_errorOccurred, m_mutex, loopLocals, tick>>
     \/ \* sync raises
        FaultEndsRun
  /\ UNCHANGED <<engineClients, m_clients, queues, m_stop, m_pause, m_updateAction,
                 stopper, history, escaped>>

\* ------------------------------------------------------ fidelity controller
\* run(), lines 300 and 306: the threshold tests
\* variant: the decrement test excludes the threshold itself
DecrementDueStrict(score) == score < fidelityDecrementScore
DecrementDue(score) == score <= fidelityDecrementScore
IncrementDue(score) == score >= fidelityIncrementScore

\* run(), lines 301-302 and 307-308: one level down / up, within the range
\* variant: one level down with no floor
LoweredAlways(level) == level - 1
Lowered(level) == IF level > Fidelity("Minimum") THEN level - 1 ELSE level
Raised(level) == IF level < Fidelity("High") THEN level + 1 ELSE level

\* run(), lines 297-310: the accumulator and the level after a tick with the
\* given spare time; down / up tell which of the two blocks ran
Adjusted(level, score, spareTime) ==
  LET added == score + spareTime
      down == DecrementDue(added)
      level1 == IF down THEN Lowered(level) ELSE level
      score1 == IF down THEN 0 ELSE added
      up == IncrementDue(score1)
  IN [level |-> IF up THEN Raised(level1) ELSE level1,
      score |-> IF up THEN 0 ELSE score1,
      down |-> down,
      up |-> up]

\* run(), lines 297-314: the controller's step closing the iteration.  Spare
\* time is measured in whole units.
LoopFidelityDoes(spareTime) ==
  /\ pc = "fidelity"
  /\ pc' = "check"
  /\ fidelityScore' = Adjusted(automaticFidelity, fidelityScore, spareTime).score
  /\ automaticFidelity' = Adjusted(automaticFidelity, fidelityScore, spareTime).level
  /\ tick' = [tick EXCEPT !.spareTime = spareTime, !.scoreBefore = fidelityScore,
                          !.levelBefore = automaticFidelity]
  /\ UNCHANGED <<engineClients, m_clients, queues, flags, m_mutex, loopLocals,
                 stopper, history, escaped, outside>>

\* the spare times a tick may measure
SpareTimes == (0 - MaxSpare)..MaxSpare

\* ------------------------------------------------------------ lock protocol
\* Each operation as the sequence of its lock operations and of its accesses
\* to the engine, the registry and the queue maps, in program order, with the
\* place a fault continues at.  k is the kind of step; `to` is where a jump,
\* a branch or a finished loop continues; `th` is where a fault raised by the
\* step continues (0: the step raises none); op is the operation a "do" step
\* calls.  A locker destroyed by stack unwinding is an unlock step at `th`.
Ins(k, to, th, op) == [k |-> k, to |-> to, th |-> th, op |-> op]

\* addClient(), lines 150-164
ScriptAddClient ==
  <<
     Ins("lockM", 0, 0, ""),  \* 1: line 152
     Ins("engine", 0, 4, ""),  \* 2: line 153: m_worldServer->addClient; a fault skips line 154
     Ins("registry", 0, 0, ""),  \* 3: line 154: m_clients.add
     Ins("unlockM", 0, 0, ""),  \* 4: the locker leaves the try block
     Ins("ret", 0, 0, "")   \* 5: lines 155, 158, 162
  >>

\* removeClient() taking the queue mutex before the simulation mutex
ScriptRemoveClientQueueFirst ==
  <<
     Ins("lockQ", 0, 0, ""),
     Ins("lockM", 0, 0, ""),
     Ins("registry", 0, 0, ""),
     Ins("branch", 11, 0, ""),
     Ins("queues", 0, 0, ""),
     Ins("engine", 0, 9, ""),
     Ins("queues", 0, 0, ""),
     Ins("engine", 0, 9, ""),
     Ins("registry", 0, 0, ""),
     Ins("queues", 0, 0, ""),
     Ins("unlockM", 0, 0, ""),
     Ins("unlockQ", 0, 0, ""),
     Ins("ret", 0, 0, "")
  >>

\* removeClient(), lines 166-192
ScriptRemoveClient ==
  <<
     Ins("lockM", 0, 0, ""),  \* 1: line 167
     Ins("registry", 0, 0, ""),  \* 2: line 168: m_clients.contains
     Ins("branch", 12, 0, ""),  \* 3: line 169: return when the id is not registered
     Ins("lockQ", 0, 0, ""),  \* 4: line 171
     Ins("queues", 0, 0, ""),  \* 5: line 175: take(m_incomingPacketQueue[clientId])
     Ins("engine", 0, 9, ""),  \* 6: lines 176-177: hasClient, handleIncomingPackets
     Ins("queues", 0, 0, ""),  \* 7: line 179: take(m_outgoingPacketQueue[clientId])
     Ins("engine", 0, 9, ""),  \* 8: lines 180-181: hasClient, removeClient
     Ins("registry", 0, 0, ""),  \* 9: line 188: m_clients.remove
     Ins("queues", 0, 0, ""),  \* 10: lines 189-190: both maps, remove
     Ins("unlockQ", 0, 0, ""),  \* 11: line 192: queueLocker leaves scope
     Ins("unlockM", 0, 0, ""),  \* 12: line 192: locker leaves scope
     Ins("ret", 0, 0, "")   \* 13: lines 169, 191
  >>

\* erroredClients(), lines 204-208
ScriptErroredClients ==
  <<
     Ins("lockM", 0, 0, ""),  \* 1: line 205
     Ins("engine", 0, 6, ""),  \* 2: line 206: m_worldServer->clientIds
     Ins("registry", 0, 0, ""),  \* 3: line 207: m_clients.difference
     Ins("unlockM", 0, 0, ""),  \* 4: line 208
     Ins("ret", 0, 0, ""),  \* 5: line 207
     Ins("unlockM", 0, 0, ""),  \* 6: the locker is destroyed by the unwinding
     Ins("raise", 0, 0, "")   \* 7: no catch in the function
  >>

\* clients() and hasClient(), lines 194-202
ScriptClients ==
  <<
     Ins("lockM", 0, 0, ""),  \* 1: lines 195, 200
     Ins("registry", 0, 0, ""),  \* 2: lines 196, 201
     Ins("unlockM", 0, 0, ""),  \* 3: lines 197, 202
     Ins("ret", 0, 0, "")   \* 4: lines 196, 201
  >>

\* spawnTargetValid, playerRevivePosition, pullNewPlanetType, readChunks
ScriptAuxQuery ==
  <<
     Ins("lockM", 0, 0, ""),  \* 1: lines 141, 222, 235, 256
     Ins("engine", 0, 3, ""),  \* 2: lines 142, 223, 236, 257
     Ins("unlockM", 0, 0, ""),  \* 3: the locker leaves the try block
     Ins("ret", 0, 0, "")   \* 4: return, from the try or the catch block
  >>

\* executeAction(), lines 244-247
ScriptExecuteAction ==
  <<
     Ins("lockM", 0, 0, ""),  \* 1: line 245
     Ins("call", 0, 5, ""),  \* 2: line 246: the injected action
     Ins("unlockM", 0, 0, ""),  \* 3: line 247
     Ins("ret", 0, 0, ""),  \* 4: line 247
     Ins("unlockM", 0, 0, ""),  \* 5: the locker is destroyed by the unwinding
     Ins("raise", 0, 0, "")   \* 6: no catch in the function
  >>

\* setUpdateAction(), lines 249-252
ScriptSetUpdateAction ==
  <<
     Ins("lockM", 0, 0, ""),  \* 1: line 250
     Ins("unlockM", 0, 0, ""),  \* 2: line 252, after the assignment of line 251
     Ins("ret", 0, 0, "")   \* 3: line 252
  >>

\* pushIncomingPackets(), lines 210-213
ScriptPushIncomingPackets ==
  <<
     Ins("lockQ", 0, 0, ""),  \* 1: line 211
     Ins("queues", 0, 0, ""),  \* 2: line 212
     Ins("unlockQ", 0, 0, ""),  \* 3: line 213
     Ins("ret", 0, 0, "")   \* 4: line 213
  >>

\* pullOutgoingPackets(), lines 215-218
ScriptPullOutgoingPackets ==
  <<
     Ins("lockQ", 0, 0, ""),  \* 1: line 216
     Ins("queues", 0, 0, ""),  \* 2: line 217
     Ins("unlockQ", 0, 0, ""),  \* 3: line 218
     Ins("ret", 0, 0, "")   \* 4: line 217
  >>

\* update(), lines 322-352
ScriptUpdate ==
  <<
     Ins("lockM", 0, 0, ""),  \* 1: line 323
     Ins("ids", 0, 27, ""),  \* 2: line 324: m_worldServer->clientIds
     Ins("iter", 14, 0, ""),  \* 3: line 325
     Ins("lockQ", 0, 0, ""),  \* 4: line 326
     Ins("queues", 0, 0, ""),  \* 5: line 327
     Ins("unlockQ", 0, 0, ""),  \* 6: line 328
     Ins("engine", 0, 9, ""),  \* 7: line 330: handleIncomingPackets
     Ins("goto", 3, 0, ""),  \* 8: line 338
     Ins("lockQ", 0, 0, ""),  \* 9: line 334
     Ins("queues", 0, 0, ""),  \* 10: line 335: m_outgoingPacketQueue[clientId]
     Ins("engine", 0, 26, ""),  \* 11: line 335: m_worldServer->removeClient
     Ins("unlockQ", 0, 0, ""),  \* 12: line 337
     Ins("goto", 3, 0, ""),  \* 13: line 338
     Ins("engine", 0, 27, ""),  \* 14: lines 340-342: setFidelity, update
     Ins("size", 0, 0, ""),  \* 15: line 344: the ids left in unerroredClientIds
     Ins("iter", 22, 0, ""),  \* 16: line 344
     Ins("engine", 0, 27, ""),  \* 17: line 345: getOutgoingPackets
     Ins("lockQ", 0, 0, ""),  \* 18: line 346
     Ins("queues", 0, 0, ""),  \* 19: line 347
     Ins("unlockQ", 0, 0, ""),  \* 20: line 348
     Ins("goto", 16, 0, ""),  \* 21: line 348
     Ins("branch", 24, 0, ""),  \* 22: line 350: no update action set
     Ins("call", 0, 27, ""),  \* 23: line 351: the update action
     Ins("unlockM", 0, 0, ""),  \* 24: line 352
     Ins("ret", 0, 0, ""),  \* 25: line 352
     Ins("unlockQ", 0, 0, ""),  \* 26: the catch block's queueLocker is destroyed by the unwinding
     Ins("unlockM", 0, 0, ""),  \* 27: the locker is destroyed by the unwinding
     Ins("raise", 0, 0, "")   \* 28: no catch in the function
  >>

\* sync() without its locker
ScriptSyncUnlocked ==
  <<
     Ins("engine", 0, 3, ""),
     Ins("ret", 0, 0, ""),
     Ins("raise", 0, 0, "")
  >>

\* sync(), lines 354-358
ScriptSync ==
  <<
     Ins("lockM", 0, 0, ""),  \* 1: line 355
     Ins("engine", 0, 5, ""),  \* 2: line 357: m_worldServer->sync
     Ins("unlockM", 0, 0, ""),  \* 3: line 358
     Ins("ret", 0, 0, ""),  \* 4: line 358
     Ins("unlockM", 0, 0, ""),  \* 5: the locker is destroyed by the unwinding
     Ins("raise", 0, 0, "")   \* 6: no catch in the function
  >>

\* run(), lines 265-320
ScriptRun ==
  <<
     Ins("branch", 6, 0, ""),  \* 1: line 284: the loop condition fails
     Ins("do", 0, 6, "update"),  \* 2: line 289
     Ins("branch", 5, 0, ""),  \* 3: line 292: the timer has not elapsed
     Ins("do", 0, 6, "sync"),  \* 4: line 293
     Ins("goto", 1, 0, ""),  \* 5: line 315
     Ins("ret", 0, 0, "")   \* 6: line 320, from the loop or from the catch block of line 316
  >>

\* ~WorldServerThread(), lines 107-114, once join has returned
ScriptDestructor ==
  <<
     Ins("lockM", 0, 0, ""),  \* 1: line 111
     Ins("ids", 0, 8, ""),  \* 2: line 112: m_worldServer->clientIds
     Ins("iter", 6, 0, ""),  \* 3: line 112
     Ins("do", 0, 8, "removeClient"),  \* 4: line 113
     Ins("goto", 3, 0, ""),  \* 5: line 113
     Ins("unlockM", 0, 0, ""),  \* 6: line 114
     Ins("ret", 0, 0, ""),  \* 7: line 114
     Ins("unlockM", 0, 0, ""),  \* 8: the locker is destroyed by the unwinding
     Ins("raise", 0, 0, "")   \* 9: the fault leaves the destructor
  >>

Script(op) ==
  CASE op = "addClient" -> ScriptAddClient
    [] op = "removeClient" -> ScriptRemoveClient
    [] op = "erroredClients" -> ScriptErroredClients
    [] op = "clients" -> ScriptClients
    [] op = "auxQuery" -> ScriptAuxQuery
    [] op = "executeAction" -> ScriptExecuteAction
    [] op = "setUpdateAction" -> ScriptSetUpdateAction
    [] op = "pushIncomingPackets" -> ScriptPushIncomingPackets
    [] op = "pullOutgoingPackets" -> ScriptPullOutgoingPackets
    [] op = "update" -> ScriptUpdate
    [] op = "sync" -> ScriptSync
    [] op = "run" -> ScriptRun
    [] op = "destructor" -> ScriptDestructor

\* the operations an injected action or update hook calls back into
Reentered == {"addClient", "removeClient", "pushIncomingPackets", "pullOutgoingPackets"}

\* the operations the dispatcher's threads call while the loop ticks
DispatchOps == Reentered \cup {"erroredClients", "executeAction"}

\* the operations a thread of the owning process calls
PublicOps == DispatchOps \cup {"clients", "auxQuery", "setUpdateAction"}

\* a call in progress: the operation, the step it is at, and the iterations
\* its current loop has left
Frame(op) == [op |-> op, ip |-> 1, n |-> 0]

Busy(t) == stack[t] # <<>>
Top(t) == stack[t][Len(stack[t])]
Cur(t) == Script(Top(t).op)[Top(t).ip]
At(t, kinds) == Busy(t) /\ Cur(t).k \in kinds

SetTop(t, f) == [stack EXCEPT ![t] = [@ EXCEPT ![Len(@)] = f]]
Goto(t, ip) == SetTop(t, [Top(t) EXCEPT !.ip = ip])
Push(t, op) == [stack EXCEPT ![t] = Append(@, Frame(op))]

\* the caller's frame once the call it waits in has returned / raised
Resumed(f, raised) ==
  [f EXCEPT !.ip = IF raised THEN Script(f.op)[f.ip].th ELSE f.ip + 1]

Pop(t, raised) ==
  LET d == Len(stack[t]) IN
  [stack EXCEPT ![t] =
     IF d = 1 THEN <<>>
     ELSE [k \in 1..(d - 1) |-> IF k = d - 1 THEN Resumed(@[k], raised) ELSE @[k]]]

\* the threads waiting for a mutex another thread owns
Blocked(t) ==
  \/ At(t, {"lockM"}) /\ m_mutex \notin {"free", t}
  \/ At(t, {"lockQ"}) /\ m_queueMutex \notin {"free", t}

\* the owner of the mutex t waits for
Blocker(t) == IF At(t, {"lockM"}) THEN m_mutex ELSE m_queueMutex

\* the state of the host other than its mutexes and the calls in progress
hostState == <<engineClients, m_clients, queues, flags, pc, loopLocals, stopper,
               history, tick, escaped, config, controller, dtorIds>>

\* a thread of the owning process enters a public operation; the loop
\* thread, created by start(), enters run()
Begin(t, op) ==
  /\ dtor = "none"
  /\ ~Busy(t)
  /\ op \in IF t = "loop" THEN {"run"} ELSE PublicOps
  /\ stack' = Push(t, op)
  /\ UNCHANGED <<hostState, dtor, m_mutex, m_mutexDepth, m_queueMutex, m_queueMutexDepth>>

\* the owner destroys the host: no other call is in progress, and join()
\* (line 109) returns once the loop thread has left run()
BeginDestructor(t) ==
  /\ dtor = "none"
  /\ t \in Callers
  /\ \A u \in Threads : ~Busy(u)
  /\ dtor' = "removing"
  /\ stack' = Push(t, "destructor")
  /\ UNCHANGED <<hostState, m_mutex, m_mutexDepth, m_queueMutex, m_queueMutexDepth>>

\* RecursiveMutexLocker on m_mutex: waits unless the mutex is free or its own
LockM(t) ==
  /\ At(t, {"lockM"})
  /\ m_mutex \in {"free", t}
  /\ m_mutex' = t
  /\ m_mutexDepth' = m_mutexDepth + 1
  /\ stack' = Goto(t, Top(t).ip + 1)
  /\ UNCHANGED <<hostState, dtor, m_queueMutex, m_queueMutexDepth>>

UnlockM(t) ==
  /\ At(t, {"unlockM"})
  /\ m_mutexDepth' = m_mutexDepth - 1
  /\ m_mutex' = IF m_mutexDepth = 1 THEN "free" ELSE m_mutex
  /\ stack' = Goto(t, Top(t).ip + 1)
  /\ UNCHANGED <<hostState, dtor, m_queueMutex, m_queueMutexDepth>>

\* RecursiveMutexLocker on m_queueMutex
LockQ(t) ==
  /\ At(t, {"lockQ"})
  /\ m_queueMutex \in {"free", t}
  /\ m_queueMutex' = t
  /\ m_queueMutexDepth' = m_queueMutexDepth + 1
  /\ stack' = Goto(t, Top(t).ip + 1)
  /\ UNCHANGED <<hostState, dtor, m_mutex, m_mutexDepth>>

UnlockQ(t) ==
  /\ At(t, {"unlockQ"})
  /\ m_queueMutexDepth' = m_queueMutexDepth - 1
  /\ m_queueMutex' = IF m_queueMutexDepth = 1 THEN "free" ELSE m_queueMutex
  /\ stack' = Goto(t, Top(t).ip + 1)
  /\ UNCHANGED <<hostState, dtor, m_mutex, m_mutexDepth>>

\* an engine call, or a read or write of the registry or of the queue maps;
\* an engine call returns or raises; clientIds() gives the following loop
\* its number of iterations
Access(t) ==
  /\ At(t, {"engine", "registry", "queues", "ids"})
  /\ \/ /\ Cur(t).k # "ids"
        /\ stack' = Goto(t, Top(t).ip + 1)
     \/ /\ Cur(t).k = "ids"
        /\ \E n \in 0..MaxLoop :
             stack' = SetTop(t, [Top(t) EXCEPT !.ip = @ + 1, !.n = n])
     \/ /\ Cur(t).th # 0
        /\ stack' = Goto(t, Cur(t).th)
  /\ UNCHANGED <<hostState, dtor, m_mutex, m_mutexDepth, m_queueMutex, m_queueMutexDepth>>

\* loops, jumps and conditions: no lock operation and no shared access
Control(t) ==
  /\ At(t, {"iter", "goto", "branch", "size"})
  /\ \/ /\ Cur(t).k = "iter"
        /\ stack' = IF Top(t).n > 0
                      THEN SetTop(t, [Top(t) EXCEPT !.ip = @ + 1, !.n = @ - 1])
                      ELSE Goto(t, Cur(t).to)
     \/ /\ Cur(t).k = "goto"
        /\ stack' = Goto(t, Cur(t).to)
     \/ /\ Cur(t).k = "branch"
        /\ \E ip \in {Top(t).ip + 1, Cur(t).to} : stack' = Goto(t, ip)
     \/ /\ Cur(t).k = "size"
        /\ \E n \in 0..MaxLoop :
             stack' = SetTop(t, [Top(t) EXCEPT !.ip = @ + 1, !.n = n])
  /\ UNCHANGED <<hostState, dtor, m_mutex, m_mutexDepth, m_queueMutex, m_queueMutexDepth>>

\* a call of another operation of the host ("do"), or the injected action or
\* hook ("call"), which calls back into one operation, or into none, or raises
Invoke(t) ==
  /\ At(t, {"do", "call"})
  /\ \/ /\ Cur(t).k = "do"
        /\ stack' = Push(t, Cur(t).op)
     \/ /\ Cur(t).k = "call"
        /\ \/ \E op \in Reentered : stack' = Push(t, op)
           \/ stack' = Goto(t, Top(t).ip + 1)
           \/ stack' = Goto(t, Cur(t).th)
  /\ UNCHANGED <<hostState, dtor, m_mutex, m_mutexDepth, m_queueMutex, m_queueMutexDepth>>

\* the operation returns to its caller, or a fault leaves it
Return(t) ==
  /\ At(t, {"ret", "raise"})
  /\ stack' = Pop(t, Cur(t).k = "raise")
  /\ dtor' = IF Top(t).op = "destructor" THEN "destroyed" ELSE dtor
  /\ UNCHANGED <<hostState, m_mutex, m_mutexDepth, m_queueMutex, m_queueMutexDepth>>

\* one step of a thread inside a call
Step(t) ==
  \/ LockM(t)
  \/ UnlockM(t)
  \/ LockQ(t)
  \/ UnlockQ(t)
  \/ Access(t)
  \/ Control(t)
  \/ Invoke(t)
  \/ Return(t)

\* ---------------------------------------------------------------- the system
\* the run-loop thread, its ticks measuring the given spare times
RunLoopWith(samples) ==
  \/ LoopCheck
  \/ UpdateBegin
  \/ UpdateDrain
  \/ UpdateDeliver
  \/ UpdateStep
  \/ UpdateCollect
  \/ UpdateHook
  \/ LoopTimer
  \/ LoopSync
  \/ \E spareTime \in samples : LoopFidelityDoes(spareTime)

\* the run-loop thread, every tick using exactly its budget
RunLoop == RunLoopWith({0})

\* every operation on every client
Next ==
  \/ Start
  \/ StopRequest
  \/ StopReturn
  \/ \E v \in {"null", "true", "false"} : SetPause(v)
  \/ \E a \in BOOLEAN : SetUpdateAction(a)
  \/ \E id \in ClientIds : AddClient(id)
  \/ \E id \in ClientIds : RemoveClient(id)
  \/ ErroredClients
  \/ AuxQuery
  \/ ExecuteAction
  \/ \E id \in ClientIds : PushIncomingPackets(id)
  \/ \E id \in ClientIds : PullOutgoingPackets(id)
  \/ RunLoopWith(SpareTimes)
  \/ Destroy

Spec == Init /\ [][Next]_vars

\* The whole system is too large to enumerate; each property is checked on
\* the operations that can affect it, running against the loop.

\* The dispatcher attaching, detaching and exchanging packets for two clients
\* while the loop ticks.
NextRegistry ==
  \/ Start
  \/ \E id \in {1, 2} : AddClient(id)
  \/ \E id \in {1, 2} : RemoveClient(id)
  \/ \E id \in {1, 2} : PushIncomingPackets(id)
  \/ \E id \in {1, 2} : PullOutgoingPackets(id)
  \/ RunLoop

SpecRegistry == Init /\ [][NextRegistry]_vars

\* Start, stop and every public operation on one client, with faulting
\* engine calls, injected actions and hooks.
NextLifecycle ==
  \/ Start
  \/ StopRequest
  \/ StopReturn
  \/ \E a \in BOOLEAN : SetUpdateAction(a)
  \/ AddClient(1)
  \/ RemoveClient(1)
  \/ ErroredClients
  \/ AuxQuery
  \/ ExecuteAction
  \/ PushIncomingPackets(1)
  \/ PullOutgoingPackets(1)
  \/ RunLoop

SpecLifecycle == Init /\ [][NextLifecycle]_vars

\* Ticks of two clients under a pause signal that changes at any time.
NextPause ==
  \/ Start
  \/ \E v \in {"null", "true", "false"} : SetPause(v)
  \/ \E id \in {1, 2} : AddClient(id)
  \/ \E id \in {1, 2} : PushIncomingPackets(id)
  \/ RunLoop

SpecPause == Init /\ [][NextPause]_vars

\* Ticks of three clients.
NextTick ==
  \/ Start
  \/ \E id \in ClientIds : AddClient(id)
  \/ \E id \in ClientIds : PushIncomingPackets(id)
  \/ RunLoop

SpecTick == Init /\ [][NextTick]_vars

\* The controller under every configuration of the two thresholds and every
\* sequence of spare times, with one client attached or not.
InitFidelity ==
  /\ Constructed
  /\ fidelityDecrementScore \in (0 - MaxThreshold)..0
  /\ fidelityIncrementScore \in 0..MaxThreshold

NextFidelity ==
  \/ Start
  \/ AddClient(1)
  \/ RunLoopWith(SpareTimes)

SpecFidelity == InitFidelity /\ [][NextFidelity]_vars

\* Two clients attached, served by the loop and detached, and the host
\* destroyed at any moment.
NextDestroy ==
  \/ Start
  \/ \E id \in {1, 2} : AddClient(id)
  \/ \E id \in {1, 2} : RemoveClient(id)
  \/ \E id \in {1, 2} : PushIncomingPackets(id)
  \/ RunLoop
  \/ Destroy

SpecDestroy == Init /\ [][NextDestroy]_vars

\* The lock protocol: the loop thread and the threads of the owning process
\* inside the operations, interleaved at every lock operation and access.
NextLocks ==
  \/ \E t \in Threads : \E op \in PublicOps \cup {"run"} : Begin(t, op)
  \/ \E t \in Callers : BeginDestructor(t)
  \/ \E t \in Threads : Step(t)

\* the same with the callers in the dispatcher's operations only
NextDispatch ==
  \/ \E t \in Threads : \E op \in DispatchOps \cup {"run"} : Begin(t, op)
  \/ \E t \in Threads : Step(t)

SpecLocks == Init /\ [][NextLocks]_vars

\* Scheduling: a thread inside a call that can take its next step again and
\* again does take it; in particular a thread waiting for a mutex that is
\* free again and again gets it.  Nothing obliges a thread to begin a call.
FairLocks == \A t \in Threads : SF_vars(Step(t))

SpecLocksFair == Init /\ [][NextDispatch]_vars /\ FairLocks


\* ------------------------------------------------------------------ claims
\* the packets update() holds for id between taking and delivering them
InFlight(id) ==
  IF pc = "deliver" /\ unerroredClientIds[it] = id THEN incomingPackets ELSE <<>>

\* both loops of update() have run
LoopsDone == pc = "hook"

\* C1: in a tick where delivery raised a fault for some client, every other
\* client the engine recognised at the start of the tick has had its incoming
\* queue drained and delivered exactly once and its outgoing packets collected.
C1_FaultIsolated ==
  (LoopsDone /\ tick.faulted # {}) =>
    \A b \in tick.snapshot \ tick.faulted :
      tick.handled[b] = 1 /\ tick.collected[b] = 1

\* C2: outgoing delivery is FIFO per id: a queue holds exactly the packets
\* appended since the last hand-over, in the order appended, and
\* pullOutgoingPackets returns all of them in that order and leaves none.
C2_OutgoingFifo ==
  /\ [](\A id \in ClientIds :
          QGet(m_outgoingPacketQueue, id) = Run(outDone[id], outSeq[id]))
  /\ [][\A id \in ClientIds :
          PullOutgoingPackets(id) =>
            /\ PulledPackets(id) = Run(outDone[id], outSeq[id])
            /\ QGet(m_outgoingPacketQueue', id) = <<>>
            /\ outDone'[id] = outSeq[id]]_vars

\* a pull during a tick returned a packet, and a later packet is queued behind it
C2_Witness ==
  \E id \in m_clients :
    /\ outDone[id] = 1
    /\ QGet(m_outgoingPacketQueue, id) = <<2>>
    /\ m_mutex = "loop"

\* C3: incoming packets reach the engine once and in push order: what update()
\* holds plus what is queued are exactly the packets not yet handed over, in
\* push order, and packets leave only by being handed to the engine, or at
\* removeClient of a client the engine no longer recognises.
C3_IncomingOnce ==
  /\ [](\A id \in ClientIds :
          InFlight(id) \o QGet(m_incomingPacketQueue, id) = Run(inDone[id], inSeq[id]))
  /\ [][\A id \in ClientIds :
          inDone'[id] # inDone[id] =>
            \/ /\ pc = "deliver"
               /\ unerroredClientIds[it] = id
               /\ inDone'[id] = inDone[id] + Len(incomingPackets)
            \/ /\ id \in m_clients
               /\ id \notin m_clients'
               /\ inDone'[id] = inSeq[id]
               /\ id \in engineClients => \A c \in RemovalCases(id) : c.h # "none"]_vars

\* a packet pushed before the drain is being delivered while one pushed after
\* the drain waits in the queue
C3_Witness ==
  /\ pc = "deliver"
  /\ unerroredClientIds[it] \in engineClients
  /\ incomingPackets = <<1>>
  /\ QGet(m_incomingPacketQueue, unerroredClientIds[it]) = <<2>>

\* C4: removeClient of a registered id leaves it in neither the registry nor
\* a queue map, whatever the engine calls did; a fault sets the error flag and
\* does not reach the caller.
C4_RemovalComplete ==
  [][\A id \in ClientIds : \A c \in RemovalCases(id) :
       RemoveClientDoes(id, c) =>
         /\ id \notin m_clients'
         /\ id \notin DOMAIN m_incomingPacketQueue'
         /\ id \notin DOMAIN m_outgoingPacketQueue'
         /\ RemovalFaulted(c) => m_errorOccurred'
         /\ ~escaped']_vars

\* a removal during which an engine call raised: the engine still has the
\* client, the host has nothing left of it
C4_Witness ==
  \E id \in engineClients :
    /\ id \notin m_clients
    /\ id \notin DOMAIN m_incomingPacketQueue
    /\ id \notin DOMAIN m_outgoingPacketQueue
    /\ m_errorOccurred
    /\ inDone[id] > 0

\* C5: no fault raised during a public operation reaches its caller.
C5_NoFaultEscapes == ~escaped

\* a tick is in progress
InTick == pc \in {"drain", "deliver", "step", "collect", "hook"}

\* C6: once stop() has returned there is no loop thread (until start()), and
\* the loop leaves a tick before its end only by a fault, never by the stop
\* request, which is seen at the iteration boundary.
C6_StopJoins ==
  /\ [](stopped => pc = "idle")
  /\ [][(InTick /\ pc' \notin {"aborted"} /\ ~InTick') =>
          \/ pc = "hook" /\ pc' = "post"
          \/ pc' = "done" /\ m_errorOccurred']_vars
  /\ [][(pc = "check" /\ pc' # pc) => pc' = IF m_stop \/ m_errorOccurred THEN "done"
                                            ELSE "update"]_vars

\* a caller of stop() waits in join while the tick in progress goes on
C6_Witness == joining /\ m_stop /\ pc = "collect"

\* C7 as stated: once set, the flag stays set until start(), and no tick begins
\* while it is set.
C7_NoTickOnceFaulted ==
  /\ [][(m_errorOccurred /\ ~m_errorOccurred') => Start]_vars
  /\ [][m_errorOccurred => ~UpdateBegin]_vars

\* C7 amended: once set, the flag stays set until start(), and the loop admits
\* no iteration whose loop condition is evaluated while the flag is set.
C7_StickyFault ==
  /\ [][(m_errorOccurred /\ ~m_errorOccurred') => Start]_vars
  /\ [][(m_errorOccurred /\ pc = "check" /\ pc' # pc) => pc' = "done"]_vars

\* the loop has ended on the flag, with no stop requested
C7_Witness == m_errorOccurred /\ ~m_stop /\ pc = "done" /\ engineClients # {}

\* C8: a rejected addClient changes nothing and returns false; one whose
\* engine call raises returns false, sets the flag, leaves the registry alone.
C8_AddClientRefused ==
  [][\A id \in ClientIds :
       /\ AddClientDoes(id, "reject") =>
            /\ ~AddClientReturns("reject")
            /\ UNCHANGED <<m_clients, m_incomingPacketQueue, m_outgoingPacketQueue,
                           m_errorOccurred>>
       /\ AddClientDoes(id, "fault") =>
            /\ ~AddClientReturns("fault")
            /\ m_errorOccurred'
            /\ UNCHANGED m_clients]_vars

\* the flag is set with no loop thread ever started and the engine empty: an
\* addClient raised, and nothing was registered
C8_Witness ==
  /\ m_errorOccurred
  /\ pc = "idle"
  /\ engineClients = {}
  /\ m_clients = {}

\* C9 as stated: an accepted addClient leaves id registered with an entry in
\* both queue maps.
C9_QueuesCreated ==
  [][\A id \in ClientIds :
       AddClientDoes(id, "accept") =>
         /\ id \in m_clients'
         /\ id \in DOMAIN m_incomingPacketQueue'
         /\ id \in DOMAIN m_outgoingPacketQueue']_vars

\* C9 amended: an accepted addClient returns true and leaves id registered;
\* it does not touch the queue maps.
C9_Registered ==
  [][\A id \in ClientIds :
       AddClientDoes(id, "accept") =>
         /\ AddClientReturns("accept")
         /\ id \in m_clients'
         /\ id \in engineClients'
         /\ UNCHANGED <<m_incomingPacketQueue, m_outgoingPacketQueue>>]_vars

\* a registered client without an entry in either queue map
C9_Witness ==
  \E id \in m_clients \cap engineClients :
    /\ id \notin DOMAIN m_incomingPacketQueue
    /\ id \notin DOMAIN m_outgoingPacketQueue

\* C10: the update step runs once in a tick unless the pause signal reads
\* true, and then not at all; draining, delivery and collection (in a tick
\* without a delivery fault: every client of the snapshot, once) and the sync
\* on an elapsed timer do not depend on the pause signal.
C10_PauseSkipsUpdateOnly ==
  /\ [](pc \in {"collect", "hook", "post", "sync"} =>
          tick.updates = IF tick.paused = "true" THEN 0 ELSE 1)
  /\ []((LoopsDone /\ tick.faulted = {}) =>
          \A c \in tick.snapshot : tick.handled[c] = 1 /\ tick.collected[c] = 1)
  /\ [][\A timeUp \in BOOLEAN :
          LoopTimerDoes(timeUp) => (pc' = "sync") = timeUp]_vars

\* a paused tick that delivered a pushed packet and collected an emitted one
C10_Witness ==
  /\ LoopsDone
  /\ tick.paused = "true"
  /\ tick.updates = 0
  /\ \E c \in tick.snapshot :
       /\ tick.handled[c] = 1
       /\ tick.collected[c] = 1
       /\ inDone[c] = 1
       /\ QGet(m_outgoingPacketQueue, c) = <<1>>

\* the thresholds are configured as the controller expects them
Configured == fidelityDecrementScore <= 0 /\ 0 < fidelityIncrementScore

\* C11: with decrementThreshold <= 0 < incrementThreshold the level stays
\* within [Minimum, High], a tick moves it by at most one level, and no tick
\* runs both the decrement and the increment.
C11_FidelityBounded ==
  /\ [](Configured => automaticFidelity \in Fidelity("Minimum")..Fidelity("High"))
  /\ [][\A spareTime \in SpareTimes :
          (Configured /\ LoopFidelityDoes(spareTime)) =>
            /\ automaticFidelity' - automaticFidelity \in {0 - 1, 0, 1}
            /\ ~(DecrementDue(fidelityScore + spareTime) /\ automaticFidelity' > automaticFidelity)
            /\ ~(Adjusted(automaticFidelity, fidelityScore, spareTime).down
                   /\ Adjusted(automaticFidelity, fidelityScore, spareTime).up)]_vars

\* the level has been driven down to Minimum, and a further deficit kept it there
C11_Witness ==
  /\ Configured
  /\ pc = "check"
  /\ tick.levelBefore = Fidelity("Minimum")
  /\ tick.scoreBefore + tick.spareTime < fidelityDecrementScore
  /\ automaticFidelity = Fidelity("Minimum")

\* C12 as stated: a tick whose spare time brings the accumulator exactly to
\* the decrement threshold lowers the level by one and leaves the accumulator
\* at 0; the accumulator is 0 after every change of level.
C12_BoundaryLowers ==
  /\ [][\A spareTime \in SpareTimes :
          (Configured /\ LoopFidelityDoes(spareTime)
             /\ fidelityScore + spareTime = fidelityDecrementScore) =>
            /\ automaticFidelity' = automaticFidelity - 1
            /\ fidelityScore' = 0]_vars
  /\ [][(pc = "fidelity" /\ automaticFidelity' # automaticFidelity) =>
          fidelityScore' = 0]_vars

\* C12 amended: such a tick lowers the level by one unless it is Minimum
\* already, where it stays, and leaves the accumulator at 0; the accumulator
\* is 0 after every change of level.
C12_BoundaryLowersFloored ==
  /\ [][\A spareTime \in SpareTimes :
          (Configured /\ LoopFidelityDoes(spareTime)
             /\ fidelityScore + spareTime = fidelityDecrementScore) =>
            /\ automaticFidelity' = IF automaticFidelity = Fidelity("Minimum")
                                    THEN automaticFidelity
                                    ELSE automaticFidelity - 1
            /\ fidelityScore' = 0]_vars
  /\ [][(pc = "fidelity" /\ automaticFidelity' # automaticFidelity) =>
          fidelityScore' = 0]_vars

\* the accumulator has just reached the decrement threshold exactly, built up
\* over more than one tick, and the level went down from Medium to Low
C12_Witness ==
  /\ Configured
  /\ pc = "check"
  /\ tick.scoreBefore < 0
  /\ tick.scoreBefore + tick.spareTime = fidelityDecrementScore
  /\ tick.levelBefore = Fidelity("Medium")
  /\ automaticFidelity = Fidelity("Low")
  /\ fidelityScore = 0

\* C13: once the host is destroyed no client is registered: every id of the
\* registry, errored clients included, has been removed.
C13_DestroyedEmpty == dtor = "destroyed" => m_clients = {}

\* C14: removeClient of a registered id returns the id's pending outgoing
\* packets followed by the packets the engine emits for the removal; right
\* after an accepted addClient nothing is pending, so a removal before any
\* tick returns the engine's removal packets alone; removeClient of an id
\* that is not registered changes nothing.
C14_RemovalReturns ==
  /\ [][\A id \in ClientIds : \A c \in RemovalCases(id) :
          RemoveClientDoes(id, c) =>
            RemoveClientPackets(id, c) = QGet(m_outgoingPacketQueue, id) \o c.e]_vars
  /\ [][\A id \in ClientIds :
          AddClientDoes(id, "accept") => QGet(m_outgoingPacketQueue', id) = <<>>]_vars
  /\ [][\A id \in ClientIds :
          RemoveClientUnknown(id) =>
            UNCHANGED <<engineClients, m_clients, queues, m_errorOccurred>>]_vars

\* the step by which delivery to id raises in a tick and id is force-removed
DeliveryFaults(id) ==
  /\ pc = "deliver"
  /\ id \notin tick.faulted
  /\ id \in tick'.faulted

\* C15 as stated: erroredClients() is the registry minus the engine's ids; a
\* registered client force-removed by a delivery fault is reported from then
\* on, and a reported client stays reported until removeClient is called for it.
C15_ErroredUntilRemoved ==
  /\ [](\A id \in ClientIds :
          id \in ErroredClientsValue <=> (id \in m_clients /\ id \notin engineClients))
  /\ [][\A id \in m_clients : DeliveryFaults(id) => id \in ErroredClientsValue']_vars
  /\ [][\A id \in ClientIds :
          (id \in ErroredClientsValue /\ id \notin ErroredClientsValue') =>
            \E c \in RemovalCases(id) : RemoveClientDoes(id, c)]_vars

\* C15 amended: ... stays reported until removeClient is called for it or
\* the engine accepts it again in an addClient.
C15_ErroredUntilReconciled ==
  /\ [](\A id \in ClientIds :
          id \in ErroredClientsValue <=> (id \in m_clients /\ id \notin engineClients))
  /\ [][\A id \in m_clients : DeliveryFaults(id) => id \in ErroredClientsValue']_vars
  /\ [][\A id \in ClientIds :
          (id \in ErroredClientsValue /\ id \notin ErroredClientsValue') =>
            \/ \E c \in RemovalCases(id) : RemoveClientDoes(id, c)
            \/ AddClientDoes(id, "accept")]_vars

\* the tick in which delivery to a registered client raised is over, and the
\* client is reported while another, still recognised, is not
C15_Witness ==
  /\ m_mutex = "free"
  /\ pc = "post"
  /\ \E id \in ErroredClientsValue : inDone[id] > 0
  /\ \E id \in m_clients \cap engineClients : id \notin ErroredClientsValue

\* a set of threads each waiting for a mutex another of them owns
Deadlocked(S) == S # {} /\ \A t \in S : Blocked(t) /\ Blocker(t) \in S

\* C16: with the loop thread and the callers inside the operations, actions
\* and hooks re-entering them included, no set of threads is deadlocked, no
\* thread requests the simulation mutex while it owns the queue mutex, a
\* thread outside every call owns no mutex, and a thread that owns a mutex
\* releases it later.
C16_NoDeadlock ==
  /\ [](\A S \in SUBSET Threads : ~Deadlocked(S))
  /\ [](\A t \in Threads : At(t, {"lockM"}) => m_queueMutex # t)
  /\ [](\A t \in Threads : ~Busy(t) => m_mutex # t /\ m_queueMutex # t)
  /\ \A t \in Threads : (m_mutex = t) ~> (m_mutex # t)
  /\ \A t \in Threads : (m_queueMutex = t) ~> (m_queueMutex # t)

\* a caller inside an action that re-entered removeClient owns the
\* simulation mutex twice and waits for the queue mutex, which another
\* caller owns, while the loop thread waits for the simulation mutex
C16_Witness ==
  \E t \in Callers : \E u \in Callers \ {t} :
    /\ Len(stack[t]) = 2
    /\ stack[t][1].op = "executeAction"
    /\ Top(t).op = "removeClient"
    /\ m_mutex = t
    /\ m_mutexDepth = 2
    /\ Blocked(t)
    /\ Blocker(t) = u
    /\ m_queueMutex = u
    /\ Blocked("loop")
    /\ Blocker("loop") = t

\* C17: the keys of both queue maps are registered ids.
C17_QueueKeysRegistered ==
  /\ DOMAIN m_incomingPacketQueue \subseteq m_clients
  /\ DOMAIN m_outgoingPacketQueue \subseteq m_clients

\* C18 as stated: whenever the simulation mutex is free, the engine's client
\* set and the registry are equal.
C18_EngineEqualsRegistry == m_mutex = "free" => engineClients = m_clients

\* C18 amended: the two sets are equal until an engine call raises: an id
\* comes to be in the registry only by a delivery fault in a tick, and in the
\* engine only by a removeClient during which an engine call raised.
C18_ApartOnlyByFaults ==
  /\ [][\A id \in ClientIds :
          (id \in m_clients' \ engineClients' /\ id \notin m_clients \ engineClients) =>
            DeliveryFaults(id)]_vars
  /\ [][\A id \in ClientIds :
          (id \in engineClients' \ m_clients' /\ id \notin engineClients \ m_clients) =>
            \E c \in RemovalCases(id) : RemovalFaulted(c) /\ RemoveClientDoes(id, c)]_vars

\* with the mutex free, one client is in the registry only (its delivery
\* raised in a tick) and another in the engine only (its removal raised)
C18_Witness ==
  /\ m_mutex = "free"
  /\ \E id \in m_clients \ engineClients : inDone[id] > 0
  /\ engineClients \ m_clients # {}

\* C19: a thread at an engine call, at an injected action or hook, or at a
\* read or write of the registry owns the simulation mutex, so no two
\* threads are at engine calls together; a thread at a read or write of the
\* queue maps owns the queue mutex.
C19_AccessesLocked ==
  /\ \A t \in Threads : At(t, {"engine", "ids", "call", "registry"}) => m_mutex = t
  /\ \A t \in Threads : At(t, {"queues"}) => m_queueMutex = t
  /\ \A t \in Threads : \A u \in Threads \ {t} :
        ~(At(t, {"engine", "ids", "call"}) /\ At(u, {"engine", "ids", "call"}))

\* the loop thread is at the engine's update step inside a tick while one
\* caller waits for the simulation mutex in addClient and another is at the
\* queue maps in pushIncomingPackets
C19_Witness ==
  /\ At("loop", {"engine"})
  /\ Top("loop").op = "update"
  /\ Top("loop").ip = 14
  /\ \E t \in Callers : \E u \in Callers \ {t} :
       /\ Busy(t)
       /\ Top(t).op = "addClient"
       /\ Blocked(t)
       /\ Busy(u)
       /\ Top(u).op = "pushIncomingPackets"
       /\ At(u, {"queues"})

\* C20: every packet that leaves an outgoing queue is handed over, once, in
\* the result of a pullOutgoingPackets or of a removeClient.
C20_OutgoingOnce ==
  /\ [](\A id \in ClientIds :
          QGet(m_outgoingPacketQueue, id) = Run(outDone[id], outSeq[id]))
  /\ [][\A id \in ClientIds :
          outDone'[id] # outDone[id] =>
            \/ PullOutgoingPackets(id)
            \/ \E c \in RemovalCases(id) : RemoveClientDoes(id, c)]_vars
  /\ [][\A id \in ClientIds :
          PullOutgoingPackets(id) => PulledPackets(id) = Run(outDone[id], outDone'[id])]_vars
  /\ [][\A id \in ClientIds : \A c \in RemovalCases(id) :
          RemoveClientDoes(id, c) =>
            RemoveClientPackets(id, c) = Run(outDone[id], outDone'[id])]_vars

====
